---------------------------- MODULE Spec2Model ----------------------------
(***************************************************************************)
(* The SMS webhook receiver: handleSMS / saveSMS of main.go, and the       *)
(* earlier smsHandler variant that enforces length limits.                 *)
(*                                                                         *)
(* A Go string is the sequence of its bytes, each a number in 0..255, so   *)
(* that len(s) is Len(s) and every byte a request can carry is a value of  *)
(* its own.  Bytes("...") is the Go string literal "...".  The library     *)
(* calls the handler makes (url.ParseQuery, strings.TrimPrefix,            *)
(* Request.PostFormValue, ...) are computed byte by byte, the way net/url  *)
(* does.                                                                   *)
(***************************************************************************)
EXTENDS Integers, Sequences, FiniteSets, TLC

(***************************************************************************)
(* Strings                                                                 *)
(***************************************************************************)

\* The characters of a literal, one one-character string each.
Chars(s) == [i \in 1..Len(s) |-> SubSeq(s, i, i)]

\* The characters 0x20..0x5F, in code order.
AsciiLow ==
    Chars(" !") \o <<"\"">> \o Chars("#$%&'()*+,-./0123456789:;<=>?@")
        \o Chars("ABCDEFGHIJKLMNOPQRSTUVWXYZ[") \o <<"\\">> \o Chars("]^_")

\* The characters 0x61..0x7E, in code order.
AsciiHigh == Chars("abcdefghijklmnopqrstuvwxyz{|}~")

\* The byte of each character a literal of the program holds.
ByteTable ==
    [c \in {"\n"} \cup {AsciiLow[n] : n \in 1..Len(AsciiLow)}
                  \cup {AsciiHigh[n] : n \in 1..Len(AsciiHigh)} |->
        IF c = "\n" THEN 10
        ELSE IF \E n \in 1..Len(AsciiLow) : AsciiLow[n] = c
        THEN 31 + CHOOSE n \in 1..Len(AsciiLow) : AsciiLow[n] = c
        ELSE 96 + CHOOSE n \in 1..Len(AsciiHigh) : AsciiHigh[n] = c]

\* The byte of a character literal, 'c' in Go.
ByteOf(c) == ByteTable[c]

\* The bytes of a string literal.
Bytes(s) == [i \in 1..Len(s) |-> ByteTable[SubSeq(s, i, i)]]

\* The concatenation of pieces[lo..hi], by halves.
RECURSIVE Concat(_, _, _)
Concat(pieces, lo, hi) ==
    IF lo > hi THEN <<>>
    ELSE IF lo = hi THEN pieces[lo]
    ELSE LET mid == (lo + hi) \div 2
         IN  Concat(pieces, lo, mid) \o Concat(pieces, mid + 1, hi)

HexDigits == Bytes("0123456789ABCDEF")

\* '0' <= c <= '9' (48..57), 'a' <= c <= 'f' (97..102), 'A' <= c <= 'F'
\* (65..70).
ishex(c) ==
    \/ 48 <= c /\ c <= 57
    \/ 97 <= c /\ c <= 102
    \/ 65 <= c /\ c <= 70

\* c - '0', c - 'a' + 10, c - 'A' + 10, and 0 for any other byte.
unhex(c) ==
    IF 48 <= c /\ c <= 57 THEN c - 48
    ELSE IF 97 <= c /\ c <= 102 THEN c - 97 + 10
    ELSE IF 65 <= c /\ c <= 70 THEN c - 65 + 10
    ELSE 0

\* strings.Cut on one byte: the text before and after the first sep.
Cut(cs, sep) ==
    IF \E i \in 1..Len(cs) : cs[i] = sep
    THEN LET i == CHOOSE k \in 1..Len(cs) :
                      cs[k] = sep /\ \A j \in 1..(k - 1) : cs[j] # sep
         IN  [before |-> SubSeq(cs, 1, i - 1),
              after  |-> SubSeq(cs, i + 1, Len(cs)),
              found  |-> TRUE]
    ELSE [before |-> cs, after |-> <<>>, found |-> FALSE]

\* strings.TrimPrefix: s without the leading prefix, when it has it.
TrimPrefix(s, prefix) ==
    IF Len(s) >= Len(prefix) /\ SubSeq(s, 1, Len(prefix)) = prefix
    THEN SubSeq(s, Len(prefix) + 1, Len(s))
    ELSE s

(***************************************************************************)
(* net/url.  The bytes it tests are written as their values: '%' is 37,    *)
(* '+' is 43, ' ' is 32, '&' is 38, ';' is 59 and '=' is 61.               *)
(***************************************************************************)

\* First pass of url.unescape: every '%' is followed by two hex digits.
EscapesWellFormed(cs) ==
    \A i \in 1..Len(cs) :
        cs[i] = 37 =>
            /\ i + 2 <= Len(cs)
            /\ ishex(cs[i + 1])
            /\ ishex(cs[i + 2])

\* Second pass of url.unescape in query mode: the bytes position i writes.  A
\* '%' writes the one byte unhex(s[i+1])<<4 | unhex(s[i+2]) and consumes its
\* two hex digits (i += 3); a '+' writes a space; any other byte writes itself.
UnescapeAt(cs, i) ==
    IF (i > 1 /\ cs[i - 1] = 37) \/ (i > 2 /\ cs[i - 2] = 37)
    THEN <<>>
    ELSE IF cs[i] = 37
         THEN <<unhex(cs[i + 1]) * 16 + unhex(cs[i + 2])>>
         ELSE IF cs[i] = 43 THEN <<32>> ELSE <<cs[i]>>

\* url.QueryUnescape: the decoded string, or an error.
QueryUnescape(cs) ==
    IF EscapesWellFormed(cs)
    THEN [err |-> FALSE,
          val |-> Concat([i \in 1..Len(cs) |-> UnescapeAt(cs, i)], 1, Len(cs))]
    ELSE [err |-> TRUE, val |-> <<>>]

\* url.QueryEscape of one byte: ' ' becomes '+'; letters, digits, '-' (45),
\* '.' (46), '_' (95) and '~' (126) stay; any other byte becomes %XX.
EscapeChar(c) ==
    IF c = 32 THEN <<43>>
    ELSE IF c \in {45, 46, 95, 126}
              \/ (48 <= c /\ c <= 57)
              \/ (65 <= c /\ c <= 90)
              \/ (97 <= c /\ c <= 122)
         THEN <<c>>
         ELSE <<37, HexDigits[(c \div 16) + 1], HexDigits[(c % 16) + 1]>>

\* url.QueryEscape: what a sender does to a value before putting it in a form.
QueryEscape(s) ==
    Concat([i \in 1..Len(s) |-> EscapeChar(s[i])], 1, Len(s))

\* m[key] = append(m[key], value)
AddValue(m, key, value) ==
    IF key \in DOMAIN m
    THEN [m EXCEPT ![key] = Append(@, value)]
    ELSE m @@ (key :> <<value>>)

\* The loop of url.parseQuery: one '&'-separated pair per round.  A pair with
\* a ';' or an invalid escape is skipped and makes the parse fail.
RECURSIVE parseQuery(_, _, _)
parseQuery(m, query, err) ==
    IF query = <<>> THEN [vals |-> m, err |-> err]
    ELSE LET c    == Cut(query, 38)
             pair == c.before
             rest == c.after
         IN  IF \E i \in 1..Len(pair) : pair[i] = 59
             THEN parseQuery(m, rest, TRUE)
             ELSE IF pair = <<>>
             THEN parseQuery(m, rest, err)
             ELSE LET kv    == Cut(pair, 61)
                      key   == QueryUnescape(kv.before)
                      value == QueryUnescape(kv.after)
                  IN  IF key.err \/ value.err
                      THEN parseQuery(m, rest, TRUE)
                      ELSE parseQuery(AddValue(m, key.val, value.val), rest, err)

\* url.ParseQuery: the values by key, and whether the parse failed.
ParseQuery(s) == parseQuery(<<>>, s, FALSE)

\* Request.ParseForm on a form-encoded POST body.
ParseForm(raw) == ParseQuery(raw)

\* Values.Get and Request.PostFormValue: the first value of key, or "".
Get(vals, key) ==
    IF key \in DOMAIN vals /\ Len(vals[key]) > 0 THEN vals[key][1] ELSE <<>>

PostFormValue(form, key) == Get(form.vals, key)

\* The form keys handleSMS looks up, and the prefix it trims.
KeyMessageSid == Bytes("MessageSid")

KeyLowerSid == Bytes("messagesid")

KeyFrom == Bytes("From")

KeyLowerFrom == Bytes("from")

KeyBody == Bytes("Body")

KeyLowerBody == Bytes("body")

QuestionMark == Bytes("?")

(***************************************************************************)
(* Requests                                                                *)
(***************************************************************************)

\* The most handler invocations that run concurrently in Spec.
MaxRequests == 2

\* The handler invocations of SpecWide, which draws from every request below.
WideRequests == 1

\* '&'-joined form pairs; an absent pair is "".
Join(a, b) ==
    IF a = <<>> THEN b ELSE IF b = <<>> THEN a ELSE a \o Bytes("&") \o b

Pair(key, value) == key \o Bytes("=") \o QueryEscape(value)

\* The three fields under their primary keys, each escaped by the sender.
DirectReq(sid, from, text) ==
    Join(Pair(Bytes("MessageSid"), sid),
         Join(Pair(Bytes("From"), from), Pair(Bytes("Body"), text)))

\* The provider quirk: the whole query string, with an optional leading '?',
\* re-encoded into the single form field `body`.
NestedReq(lead, query) == Pair(Bytes("body"), lead \o query)

\* The nested query string as the spec's example has it: values not escaped.
PlainQuery(sid, from, text) ==
    Bytes("MessageSid=") \o sid \o Bytes("&From=") \o from
        \o Bytes("&Body=") \o text

\* A two-line text with a grave accent (0x60) and a two-byte UTF-8 letter.
TwoLines == Bytes("l1") \o <<10, 96, 195, 169>>

SidValues  == {Bytes("SM9"), Bytes("SM 7")}
FromValues == {Bytes("+1555"), Bytes("077")}
BodyValues == {Bytes("Hi"), Bytes("a=b&c?"), TwoLines}

DirectRequests ==
    {DirectReq(s, f, b) : s \in SidValues, f \in FromValues, b \in BodyValues}

\* Nested-only requests: the query string plain (as in the spec's example) or
\* itself a well-formed form, each with and without the leading '?'.
NestedRequests ==
    {NestedReq(q, PlainQuery(s, f, b)) :
        q \in {<<>>, Bytes("?")}, s \in {Bytes("SM9")},
        f \in FromValues, b \in {Bytes("Hi")}}
    \cup {NestedReq(q, DirectReq(s, f, b)) :
        q \in {<<>>, Bytes("?")}, s \in {Bytes("SM9")},
        f \in {Bytes("+1555")}, b \in BodyValues}

SidParts  == {<<>>, Bytes("MessageSid=SM9"), Bytes("messagesid=sm7")}
FromParts == {<<>>, Bytes("From=%2B1555"), Bytes("from=077")}
BodyParts ==
    {<<>>, Bytes("Body=Hi"), Bytes("body=yo"),
     Bytes("body=MessageSid%3DSM2%26From%3D%252B1666%26Body%3DHey"),
     Bytes("Body=Hi&body=%3FMessageSid%3DSM2%26From%3D%252B1666%26Body%3DHey"),
     Bytes("body=messagesid%3Dsm3%26from%3D088%26body%3Dhey"),
     Bytes("body=From%3D088"),
     Bytes("body=%3F%3FMessageSid%3DSM2%26From%3D088"),
     Bytes("body=%25zz")}

\* Every combination of a way to send (or omit) each field.
MixedRequests ==
    {Join(s, Join(f, b)) : s \in SidParts, f \in FromParts, b \in BodyParts}

\* A string of n copies of one byte.
Repeat(c, n) == [i \in 1..n |-> c]

\* The length limits of smsHandler.
MaxSidLen == 50

MaxFromLen == 15

MaxBodyLen == 1600

\* Inputs at and just over the length limits, in plain and in escaped bytes.
LongRequests ==
    {DirectReq(Repeat(ByteOf("S"), MaxSidLen), Bytes("+1555"), Bytes("Hi")),
     DirectReq(Repeat(ByteOf("S"), MaxSidLen + 1), Bytes("+1555"), Bytes("Hi")),
     DirectReq(Bytes("SM9"), Repeat(ByteOf("5"), MaxFromLen), Bytes("Hi")),
     DirectReq(Bytes("SM9"), Repeat(ByteOf("5"), MaxFromLen + 1), Bytes("Hi")),
     DirectReq(Bytes("SM9"), Repeat(96, MaxFromLen), Bytes("Hi")),
     DirectReq(Bytes("SM9"), Repeat(10, MaxFromLen + 1), Bytes("Hi")),
     DirectReq(Bytes("SM9"), Bytes("+1555"), Repeat(ByteOf("x"), MaxBodyLen)),
     DirectReq(Bytes("SM9"), Bytes("+1555"), Repeat(ByteOf("x"), MaxBodyLen + 1))}

\* Malformed, repeated and empty forms, and escapes of bytes outside
\* printable ASCII.
OddRequests ==
    {<<>>, Bytes("MessageSid=%zz&From=1&Body=x"),
     Bytes("MessageSid=SM9&From=1&Body=x&junk=%4"),
     Bytes("MessageSid=SM9;From=1&Body=x"),
     Bytes("MessageSid=A&MessageSid=B&From=1&Body=x"),
     Bytes("MessageSid=&messagesid=sm7&From=1&Body=x"),
     Bytes("MessageSid&From&Body"),
     Bytes("MessageSid=SM9&From=1&body=Body%3DHi%26x%3D%25zz"),
     Bytes("MessageSid=SM9&messagesid=sm7&From=%2B1555&from=077&Body=Hi&body=yo"),
     Bytes("MessageSid=A&From=%60%60%60%60&Body=x"),
     Bytes("MessageSid=A&From=%0A%0A%0A%0A%0A%0A%0A%0A&Body=a%0Ab"),
     Bytes("MessageSid=%00&From=%01&Body=%5Cx"),
     Bytes("MessageSid=A&From=%ff&Body=%C3%A9")}

AllRequests ==
    DirectRequests \cup NestedRequests \cup MixedRequests
        \cup LongRequests \cup OddRequests

\* The requests of the concurrent specification: stored directly, stored
\* through the fallback, missing a field, and malformed.
ConcRequests ==
    {Bytes("MessageSid=SM9&From=%2B1555&Body=Hi"),
     Bytes("MessageSid=SM9&From=%2B1555&Body=l1%0A%60%C3%A9"),
     Bytes("messagesid=sm7&from=077&body=yo"),
     Bytes("body=%3FMessageSid%3DSM9%26From%3D%2B1555%26Body%3DHi"),
     Bytes("MessageSid=SM9&From=%2B1555"),
     Bytes("MessageSid=%zz&From=1&Body=x")}

(***************************************************************************)
(* State                                                                   *)
(***************************************************************************)

VARIABLES
    h,      \* h[i]: handler invocation i: its request, locals and response
    table,  \* the rows of sms_messages, in insertion order
    now     \* the clock time.Now() reads

vars == <<h, table, now>>

\* An invocation whose request has arrived and whose handler has not yet run.
\* pc is "arrived", then "save" (about to call saveSMS), then "stored" (the
\* server has committed the INSERT and db.Exec has not yet returned), then
\* "done" (the response is written).  err is what saveSMS returned to line
\* 108: "unset" before it returns, then "nil" or "error".
Arrived(raw) ==
    [pc          |-> "arrived",
     raw         |-> raw,
     form        |-> [vals |-> <<>>, err |-> FALSE],
     direct      |-> [messageSID |-> <<>>, fromNumber |-> <<>>, body |-> <<>>],
     fallback    |-> "none",
     fields      |-> [messageSID |-> <<>>, fromNumber |-> <<>>, body |-> <<>>],
     sms         |-> [MessageSID |-> <<>>, FromNumber |-> <<>>, Body |-> <<>>,
                      ReceivedAt |-> 0],
     execs       |-> 0,
     rowId       |-> 0,
     err         |-> "unset",
     status      |-> 0,
     contentType |-> "",
     respBody    |-> <<>>,
     logged      |-> ""]

InitOver(n, requests) ==
    /\ h \in [1..n -> {Arrived(raw) : raw \in requests}]
    /\ table = <<>>
    /\ now = 1

Init == InitOver(MaxRequests, ConcRequests)

InitWide == InitOver(WideRequests, AllRequests)

(***************************************************************************)
(* handleSMS (main.go)                                                     *)
(***************************************************************************)

\* http.Error: the status, a plain-text body ending in a newline.
HttpError(inv, message, code, tag) ==
    [inv EXCEPT !.pc = "done", !.status = code,
                !.contentType = "text/plain; charset=utf-8",
                !.respBody = message \o Bytes("\n"), !.logged = tag]

\* DirectFields with the two keys of each field looked up the other way round.
DirectFieldsLowerFirst(form) ==
    LET messageSID == PostFormValue(form, KeyLowerSid)
        fromNumber == PostFormValue(form, KeyLowerFrom)
        body       == PostFormValue(form, KeyLowerBody)
    IN  [messageSID |-> IF messageSID = <<>>
                        THEN PostFormValue(form, KeyMessageSid)
                        ELSE messageSID,
         fromNumber |-> IF fromNumber = <<>>
                        THEN PostFormValue(form, KeyFrom) ELSE fromNumber,
         body       |-> IF body = <<>>
                        THEN PostFormValue(form, KeyBody) ELSE body]

\* DirectFields without the lower-case key for the body.
DirectFieldsNoLowerBody(form) ==
    LET messageSID == PostFormValue(form, KeyMessageSid)
        fromNumber == PostFormValue(form, KeyFrom)
    IN  [messageSID |-> IF messageSID = <<>>
                        THEN PostFormValue(form, KeyLowerSid)
                        ELSE messageSID,
         fromNumber |-> IF fromNumber = <<>>
                        THEN PostFormValue(form, KeyLowerFrom) ELSE fromNumber,
         body       |-> PostFormValue(form, KeyBody)]

\* The fields from the direct form values, lower-case key when the primary
\* one is absent or empty.
DirectFields(form) ==
    LET messageSID == PostFormValue(form, KeyMessageSid)
        fromNumber == PostFormValue(form, KeyFrom)
        body       == PostFormValue(form, KeyBody)
    IN  [messageSID |-> IF messageSID = <<>>
                        THEN PostFormValue(form, KeyLowerSid)
                        ELSE messageSID,
         fromNumber |-> IF fromNumber = <<>>
                        THEN PostFormValue(form, KeyLowerFrom) ELSE fromNumber,
         body       |-> IF body = <<>>
                        THEN PostFormValue(form, KeyLowerBody) ELSE body]

\* AnyEmpty that tests the message identifier alone.
AnyEmptySidOnly(f) == f.messageSID = <<>>

AnyEmpty(f) == f.messageSID = <<>> \/ f.fromNumber = <<>> \/ f.body = <<>>

\* Fill that lets the nested value replace one already set.
FillOverwrite(current, parsed, key, lower) ==
    IF Get(parsed.vals, key) # <<>> THEN Get(parsed.vals, key)
    ELSE IF Get(parsed.vals, lower) # <<>> THEN Get(parsed.vals, lower)
    ELSE current

\* One field of the fallback: kept when already set, else looked up in parsed.
Fill(current, parsed, key, lower) ==
    IF current = <<>>
    THEN IF Get(parsed.vals, key) = <<>>
         THEN Get(parsed.vals, lower) ELSE Get(parsed.vals, key)
    ELSE current

\* The fallback on the `body` form value: whether it ran, and the fields after.
Fallback(form, f) ==
    IF ~AnyEmpty(f) \/ PostFormValue(form, KeyLowerBody) = <<>>
    THEN [how |-> "skipped", fields |-> f]
    ELSE LET bodyParam ==
                 TrimPrefix(PostFormValue(form, KeyLowerBody), QuestionMark)
             parsed    == ParseQuery(bodyParam)
         IN  IF parsed.err
             THEN [how |-> "failed", fields |-> f]
             ELSE [how |-> "ran",
                   fields |->
                       [messageSID |->
                            Fill(f.messageSID, parsed,
                                 KeyMessageSid, KeyLowerSid),
                        fromNumber |->
                            Fill(f.fromNumber, parsed,
                                 KeyFrom, KeyLowerFrom),
                        body |->
                            Fill(f.body, parsed, KeyBody, KeyLowerBody)]]

\* handleSMS up to the call of saveSMS: parse, extract, validate, build sms.
Prepare(inv, time) ==
    LET form == ParseForm(inv.raw)
        f    == DirectFields(form)
        fb   == Fallback(form, f)
        read == [inv EXCEPT !.form = form]
        seen == [read EXCEPT !.direct = f, !.fallback = fb.how,
                             !.fields = fb.fields]
    IN  IF form.err
        THEN HttpError(read, Bytes("Invalid form data"), 400,
                       "WEBHOOK_INVALID_FORM")
        ELSE IF fb.how = "failed"
        THEN HttpError(seen, Bytes("Invalid body parameter"), 400,
                       "WEBHOOK_INVALID_BODY")
        ELSE IF AnyEmpty(fb.fields)
        THEN HttpError(seen, Bytes("Missing required fields"), 400,
                       "WEBHOOK_NO_INPUT")
        ELSE [seen EXCEPT !.pc = "save",
                          !.sms = [MessageSID |-> fb.fields.messageSID,
                                   FromNumber |-> fb.fields.fromNumber,
                                   Body       |-> fb.fields.body,
                                   ReceivedAt |-> time]]

\* The acknowledgment handleSMS writes.
twimlResponse ==
    Bytes("<?xml version=\"1.0\" encoding=\"UTF-8\"?>\n<Response>\n    <Message>Message received! Thank you.</Message>\n</Response>")

\* The row an INSERT of sms adds: the next auto-increment id and the values.
NewRow(rows, sms) ==
    [id          |-> Len(rows) + 1,
     message_sid |-> sms.MessageSID,
     from_number |-> sms.FromNumber,
     body        |-> sms.Body,
     received_at |-> sms.ReceivedAt]

\* saveSMS as an insert-or-ignore on message_sid.
saveSMSIgnoreDuplicate(rows, sms) ==
    IF \E k \in 1..Len(rows) : rows[k].message_sid = sms.MessageSID
    THEN rows
    ELSE Append(rows, [id |-> Len(rows) + 1, message_sid |-> sms.MessageSID,
                       from_number |-> sms.FromNumber, body |-> sms.Body,
                       received_at |-> sms.ReceivedAt])

\* saveSMS as a write to a single slot: the newest message replaces the last.
saveSMSReplace(rows, sms) ==
    IF rows = <<>>
    THEN <<[id |-> 1, message_sid |-> sms.MessageSID,
            from_number |-> sms.FromNumber, body |-> sms.Body,
            received_at |-> sms.ReceivedAt]>>
    ELSE [rows EXCEPT ![Len(rows)] =
             [id |-> Len(rows), message_sid |-> sms.MessageSID,
              from_number |-> sms.FromNumber, body |-> sms.Body,
              received_at |-> sms.ReceivedAt]]

\* What the INSERT of saveSMS does to the table when the server accepts it:
\* one row added, nothing read.
saveSMS(rows, sms) == Append(rows, NewRow(rows, sms))

\* Lines 36-105: everything before the database is touched.  time.Now() is
\* read only when the struct is built.
Extract(i) ==
    /\ h[i].pc = "arrived"
    /\ h' = [h EXCEPT ![i] = Prepare(h[i], now)]
    /\ now' = IF h'[i].pc = "save" THEN now + 1 ELSE now
    /\ UNCHANGED table

\* Line 108, inside db.Exec: the server commits the INSERT.  The row is in
\* the table from here on, while the handler still waits for db.Exec to
\* return and other handlers run.
ExecInsert(i) ==
    /\ h[i].pc = "save"
    /\ table' = saveSMS(table, h[i].sms)
    /\ h' = [h EXCEPT ![i] =
                [@ EXCEPT !.pc = "stored", !.execs = @ + 1,
                          !.rowId = Len(table) + 1]]
    /\ UNCHANGED now

\* Lines 109 and 115-128: db.Exec has returned nil, the handler answers.
SaveOk(i) ==
    /\ h[i].pc = "stored"
    /\ h' = [h EXCEPT ![i] =
                [@ EXCEPT !.pc = "done",
                          !.err = "nil",
                          !.status = 200,
                          !.contentType = "application/xml",
                          !.respBody = twimlResponse,
                          !.logged = "Saved SMS"]]
    /\ UNCHANGED <<table, now>>

\* SaveFail that leaves a row with the identifier alone behind.
SaveFailPartialRow(i) ==
    /\ h[i].pc = "save"
    /\ table' = Append(table, [id |-> Len(table) + 1,
                               message_sid |-> h[i].sms.MessageSID,
                               from_number |-> <<>>, body |-> <<>>,
                               received_at |-> h[i].sms.ReceivedAt])
    /\ h' = [h EXCEPT ![i] =
                [@ EXCEPT !.pc = "done", !.execs = @ + 1, !.status = 500,
                          !.err = "error",
                          !.respBody = Bytes("Failed to save message\n")]]
    /\ UNCHANGED now

\* SaveFail that tries the insert once more before giving up.
SaveFailRetry(i) ==
    /\ h[i].pc = "save"
    /\ h' = [h EXCEPT ![i] =
                [@ EXCEPT !.pc = IF h[i].execs = 0 THEN "save" ELSE "done",
                          !.execs = @ + 1,
                          !.status = IF h[i].execs = 0 THEN 0 ELSE 500]]
    /\ UNCHANGED <<table, now>>

\* Lines 107-113: db.Exec returns an error.  At "save" the INSERT never took
\* effect (connection refused, statement rejected) and nothing is stored; at
\* "stored" the server had committed it and the reply was lost, so the row
\* stays.  The handler cannot tell the two apart: its guard is err != nil.
SaveFail(i) ==
    /\ h[i].pc \in {"save", "stored"}
    /\ h' = [h EXCEPT ![i] =
                HttpError([h[i] EXCEPT
                               !.execs = IF h[i].pc = "save" THEN @ + 1 ELSE @,
                               !.err = "error"],
                          Bytes("Failed to save message"), 500,
                          "DB_SAVE_ERROR")]
    /\ UNCHANGED <<table, now>>

\* Any invocation takes its next step: the handlers run concurrently.
Next ==
    \/ \E i \in DOMAIN h : Extract(i)
    \/ \E i \in DOMAIN h : ExecInsert(i)
    \/ \E i \in DOMAIN h : SaveOk(i)
    \/ \E i \in DOMAIN h : SaveFail(i)

Spec == Init /\ [][Next]_vars

SpecWide == InitWide /\ [][Next]_vars

(***************************************************************************)
(* smsHandler (the variant with length limits)                             *)
(***************************************************************************)

\* smsHandler up to db.Exec: primary keys only, presence, then length.
SmsPrepare(inv, time) ==
    LET form       == ParseForm(inv.raw)
        from       == PostFormValue(form, KeyFrom)
        body       == PostFormValue(form, KeyBody)
        messageSid == PostFormValue(form, KeyMessageSid)
        f    == [messageSID |-> messageSid, fromNumber |-> from, body |-> body]
        read == [inv EXCEPT !.form = form]
        seen == [read EXCEPT !.direct = f, !.fallback = "skipped", !.fields = f]
    IN  IF form.err
        THEN HttpError(read, Bytes("Invalid form data"), 400, "")
        ELSE IF from = <<>> \/ body = <<>> \/ messageSid = <<>>
        THEN HttpError(seen, Bytes("Missing required fields"), 400, "")
        ELSE IF Len(body) > MaxBodyLen \/ Len(from) > MaxFromLen
                    \/ Len(messageSid) > MaxSidLen
        THEN HttpError(seen, Bytes("Input length exceeded"), 400, "")
        ELSE [seen EXCEPT !.pc = "save",
                          !.sms = [MessageSID |-> messageSid,
                                   FromNumber |-> from,
                                   Body       |-> body,
                                   ReceivedAt |-> time]]

SmsExtract(i) ==
    /\ h[i].pc = "arrived"
    /\ h' = [h EXCEPT ![i] = SmsPrepare(h[i], now)]
    /\ now' = IF h'[i].pc = "save" THEN now + 1 ELSE now
    /\ UNCHANGED table

\* Line 96, inside db.Exec: the server commits the INSERT.
SmsExecInsert(i) ==
    /\ h[i].pc = "save"
    /\ table' = Append(table, NewRow(table, h[i].sms))
    /\ h' = [h EXCEPT ![i] =
                [@ EXCEPT !.pc = "stored", !.execs = @ + 1,
                          !.rowId = Len(table) + 1]]
    /\ UNCHANGED now

\* Lines 97 and 103-104: db.Exec has returned nil, the handler answers.
SmsExecOk(i) ==
    /\ h[i].pc = "stored"
    /\ h' = [h EXCEPT ![i] =
                [@ EXCEPT !.pc = "done",
                          !.err = "nil",
                          !.status = 200,
                          !.contentType = "text/plain; charset=utf-8",
                          !.respBody = Bytes("Message stored successfully")]]
    /\ UNCHANGED <<table, now>>

\* Lines 96-100: db.Exec returns an error, before the INSERT took effect or
\* after the server committed it.
SmsExecFail(i) ==
    /\ h[i].pc \in {"save", "stored"}
    /\ h' = [h EXCEPT ![i] =
                HttpError([h[i] EXCEPT
                               !.execs = IF h[i].pc = "save" THEN @ + 1 ELSE @,
                               !.err = "error"],
                          Bytes("Internal server error"), 500, "")]
    /\ UNCHANGED <<table, now>>

NextSms ==
    \/ \E i \in DOMAIN h : SmsExtract(i)
    \/ \E i \in DOMAIN h : SmsExecInsert(i)
    \/ \E i \in DOMAIN h : SmsExecOk(i)
    \/ \E i \in DOMAIN h : SmsExecFail(i)

SpecSms == InitWide /\ [][NextSms]_vars

(***************************************************************************)
(* Properties                                                              *)
(***************************************************************************)

Invocations == DOMAIN h

Done(i) == h[i].pc = "done"

\* The form of invocation i's request, once its handler has parsed it.
Form(i) == h[i].form

\* db.Exec was called for i and the INSERT was committed: i's row is
\* table[rowId].
Inserted(i) == h[i].execs = 1 /\ h[i].rowId # 0

\* saveSMS returned nil to invocation i, or returned an error.
SaveSucceeded(i) == h[i].err = "nil"

SaveFailed(i) == h[i].err = "error"

\* The rows of the table written for invocation i.
RowsOf(i) == {k \in 1..Len(table) : k = h[i].rowId}

\* The three message columns of a row or struct.
Columns(sid, from, text) ==
    [message_sid |-> sid, from_number |-> from, body |-> text]

RowColumns(row) == Columns(row.message_sid, row.from_number, row.body)

\* All three fields non-empty under their primary keys.
PrimaryPresent(i) ==
    /\ h[i].pc # "arrived"
    /\ ~Form(i).err
    /\ PostFormValue(Form(i), KeyMessageSid) # <<>>
    /\ PostFormValue(Form(i), KeyFrom) # <<>>
    /\ PostFormValue(Form(i), KeyBody) # <<>>

\* The requests a sender makes of each triple of values, with the values.
DirectSent ==
    {[raw |-> DirectReq(s, f, b), values |-> Columns(s, f, b)] :
        s \in SidValues, f \in FromValues, b \in BodyValues}

\* Exactly one row was written for i, holding the primary form values, which
\* are the values the sender escaped into the request.
StoresPrimaryValues(i) ==
    /\ Cardinality(RowsOf(i)) = 1
    /\ Len(table) = Cardinality({j \in Invocations : Inserted(j)})
    /\ RowColumns(table[h[i].rowId])
           = Columns(PostFormValue(Form(i), KeyMessageSid),
                     PostFormValue(Form(i), KeyFrom),
                     PostFormValue(Form(i), KeyBody))
    /\ \A sent \in DirectSent :
           h[i].raw = sent.raw => RowColumns(table[h[i].rowId]) = sent.values

\* The acknowledgment XML as the specification prints it.
SpecAckXML ==
    Bytes("<?xml version=\"1.0\" encoding=\"UTF-8\"?>\n<Response><Message>Message received! Thank you.</Message></Response>")

\* Line layout: a newline (byte 10), or a space (byte 32) of the indentation
\* that follows one.
IsLayout(cs, i) ==
    \/ cs[i] = 10
    \/ /\ cs[i] = 32
       /\ \E j \in 1..(i - 1) :
              cs[j] = 10 /\ \A k \in (j + 1)..i : cs[k] = 32

\* A document without its line breaks and indentation.
WithoutLayout(cs) ==
    Concat([i \in 1..Len(cs) |-> IF IsLayout(cs, i) THEN <<>> ELSE <<cs[i]>>],
           1, Len(cs))

SpecAckFlat == WithoutLayout(SpecAckXML)

\* C1 as stated: a request with MessageSid, From and Body non-empty under the
\* primary keys whose insert succeeds has exactly one row holding the submitted
\* values, and is answered 200 with the acknowledgment XML exactly as the
\* specification gives it.
C1_LiteralAck ==
    \A i \in Invocations :
        (Done(i) /\ PrimaryPresent(i) /\ SaveSucceeded(i))
            => /\ StoresPrimaryValues(i)
               /\ h[i].status = 200
               /\ h[i].respBody = SpecAckXML

\* C1 amended: the same, with the acknowledgment equal to the specification's
\* XML up to line breaks and indentation between the elements (the handler
\* puts <Message> on a line of its own, indented), sent as application/xml.
C1_AckUpToLayout ==
    \A i \in Invocations :
        (Done(i) /\ PrimaryPresent(i) /\ SaveSucceeded(i))
            => /\ StoresPrimaryValues(i)
               /\ h[i].status = 200
               /\ h[i].contentType = "application/xml"
               /\ WithoutLayout(h[i].respBody) = SpecAckFlat

\* A request whose From needed decoding ("%2B1555") and whose Body was sent
\* as "l1%0A%60%C3%A9" was stored, the body as its six bytes, and answered.
C1_Witness ==
    \E i \in Invocations :
        /\ Done(i) /\ PrimaryPresent(i) /\ SaveSucceeded(i)
        /\ h[i].raw = Bytes("MessageSid=SM+7&From=%2B1555&Body=l1%0A%60%C3%A9")
        /\ table[h[i].rowId].from_number = Bytes("+1555")
        /\ table[h[i].rowId].body = TwoLines
        /\ Len(table[h[i].rowId].body) = 6
        /\ h[i].status = 200

\* What handleSMS passes to saveSMS for a request, or no columns at all.
StoredFor(raw) ==
    LET p == Prepare(Arrived(raw), 0)
    IN  IF p.pc = "save"
        THEN Columns(p.sms.MessageSID, p.sms.FromNumber, p.sms.Body)
        ELSE Columns(<<>>, <<>>, <<>>)

\* C2 as stated: a request that carries the three fields only inside `body`,
\* as a query string with or without a leading '?', is extracted and stores
\* the record that the same values sent under the primary keys store.
C2_FallbackEquivalence ==
    \A i \in Invocations :
        \A q \in {<<>>, QuestionMark}, s \in SidValues, f \in FromValues,
           b \in BodyValues :
            (h[i].raw = NestedReq(q, PlainQuery(s, f, b)) /\ h[i].pc # "arrived")
                => /\ h[i].status # 400
                   /\ Inserted(i) =>
                          /\ RowColumns(table[h[i].rowId]) = Columns(s, f, b)
                          /\ RowColumns(table[h[i].rowId])
                                 = StoredFor(DirectReq(s, f, b))

HasEmpty(f) == f.messageSID = <<>> \/ f.fromNumber = <<>> \/ f.body = <<>>

\* After both lookups all three fields are non-empty.
Validated(i) ==
    /\ h[i].pc # "arrived"
    /\ ~Form(i).err
    /\ LET fb == Fallback(Form(i), DirectFields(Form(i)))
       IN  fb.how # "failed" /\ ~HasEmpty(fb.fields)

NoEmptyColumn ==
    \A k \in 1..Len(table) :
        /\ table[k].message_sid # <<>>
        /\ table[k].from_number # <<>>
        /\ table[k].body # <<>>

\* C3 as stated: in every state a request has a row if and only if its three
\* fields were extracted and validated (for a request still being handled the
\* row may be yet to come, so the "if" is read once it has been answered); no
\* row has an empty field.
C3_RowIffValidated ==
    /\ NoEmptyColumn
    /\ \A i \in Invocations :
           /\ RowsOf(i) # {} => Validated(i)
           /\ Done(i) => (RowsOf(i) # {} <=> Validated(i))

\* C3 amended: a request has a row only if its three fields were extracted and
\* validated, the row holding exactly those fields; it has none before its
\* INSERT is committed and one from then on, which may be before it is
\* answered.  An answered request that was not validated has no row, one
\* answered 200 has a row, and a validated one answered 500 (saveSMS reported
\* an error) has a row or not, according to whether the server had committed
\* the INSERT when the error was reported.  No row has an empty field.
C3_RowIffValidatedAndSaved ==
    /\ NoEmptyColumn
    /\ \A i \in Invocations :
           /\ RowsOf(i) # {} =>
                  /\ Validated(i)
                  /\ h[i].pc \in {"stored", "done"}
                  /\ RowColumns(table[h[i].rowId])
                         = Columns(h[i].fields.messageSID,
                                   h[i].fields.fromNumber, h[i].fields.body)
           /\ h[i].pc = "stored" => RowsOf(i) # {}
           /\ Done(i) =>
                  /\ (Validated(i) /\ SaveSucceeded(i)) => RowsOf(i) # {}
                  /\ h[i].status = 200 => (Validated(i) /\ RowsOf(i) # {})
                  /\ (Validated(i) /\ RowsOf(i) = {})
                         => (SaveFailed(i) /\ h[i].status = 500)
                  /\ Validated(i) <=> (SaveSucceeded(i) \/ SaveFailed(i))

\* A validated request whose row, extracted through the fallback, is in the
\* table while the request is still unanswered, and a validated, answered
\* request whose insert failed.
C3_Witness ==
    \E i, j \in Invocations :
        /\ h[i].pc = "stored" /\ Validated(i) /\ RowsOf(i) # {}
        /\ h[i].fallback = "ran"
        /\ Done(j) /\ Validated(j) /\ RowsOf(j) = {} /\ h[j].status = 500

\* C4: a request with a field still empty after the direct lookup and the
\* nested-body extraction is answered 400, saveSMS is never called for it and
\* it adds no row.
C4_MissingFieldsRejected ==
    \A i \in Invocations :
        (h[i].pc # "arrived" /\ ~Form(i).err /\ ~Validated(i))
            => /\ Done(i)
               /\ h[i].status = 400
               /\ h[i].execs = 0
               /\ RowsOf(i) = {}
               /\ Len(table) = Cardinality({j \in Invocations : Inserted(j)})

\* A request whose nested body supplied From but no MessageSid was rejected.
C4_Witness ==
    \E i \in Invocations :
        /\ Done(i) /\ h[i].status = 400
        /\ h[i].fallback = "ran"
        /\ h[i].fields.fromNumber # <<>> /\ h[i].fields.messageSID = <<>>

\* C5 as stated: when saveSMS fails for a validated request the answer is 500,
\* no row exists for the request and the insert was attempted exactly once.
C5_SaveFailureDropsMessage ==
    \A i \in Invocations :
        /\ h[i].execs <= 1
        /\ SaveFailed(i)
               => /\ Done(i)
                  /\ h[i].status = 500
                  /\ h[i].execs = 1
                  /\ Validated(i)
                  /\ RowsOf(i) = {}

\* C5 amended: when saveSMS fails for a validated request the answer is 500
\* "Failed to save message", the insert was attempted exactly once and never
\* again, and the failure leaves no partial row: the request has no row when
\* the INSERT never took effect, and its one complete row when the server had
\* committed the INSERT before the error was reported.  Only a failure of
\* saveSMS is answered 500.
C5_SaveFailureNoRetryNoPartialRow ==
    \A i \in Invocations :
        /\ h[i].execs <= 1
        /\ SaveFailed(i)
               => /\ Done(i)
                  /\ h[i].status = 500
                  /\ h[i].respBody = Bytes("Failed to save message\n")
                  /\ h[i].execs = 1
                  /\ Validated(i)
                  /\ Cardinality(RowsOf(i)) <= 1
                  /\ RowsOf(i) # {} =>
                         RowColumns(table[h[i].rowId])
                             = Columns(h[i].fields.messageSID,
                                       h[i].fields.fromNumber,
                                       h[i].fields.body)
                  /\ NoEmptyColumn
                  /\ Len(table) = Cardinality({j \in Invocations : Inserted(j)})
        /\ h[i].status = 500 => SaveFailed(i)

\* Two validated requests answered 500: the INSERT of one never took effect,
\* the INSERT of the other was committed and its row is in the table.
C5_Witness ==
    \E i, j \in Invocations :
        /\ Done(i) /\ SaveFailed(i) /\ h[i].status = 500 /\ RowsOf(i) = {}
        /\ Done(j) /\ SaveFailed(j) /\ h[j].status = 500 /\ RowsOf(j) # {}
        /\ Validated(i) /\ Validated(j)

\* A field of the request is longer than the limit of its column.
Oversized(i) ==
    /\ h[i].pc # "arrived"
    /\ ~Form(i).err
    /\ \/ Len(PostFormValue(Form(i), KeyMessageSid)) > MaxSidLen
       \/ Len(PostFormValue(Form(i), KeyFrom)) > MaxFromLen
       \/ Len(PostFormValue(Form(i), KeyBody)) > MaxBodyLen

\* C6 as stated: a request with an oversized message identifier, sender or
\* body is answered 400 and no database write is attempted.
C6_OversizedRejected ==
    \A i \in Invocations :
        Oversized(i) =>
            /\ h[i].execs = 0
            /\ Done(i) => h[i].status = 400

\* smsHandler, unlike handleSMS, does reject each oversized field, and only
\* those: a field within its limit in bytes, however long its escaped form,
\* is not rejected for its length.
SmsHandlerRejectsOversized ==
    /\ C6_OversizedRejected
    /\ \A i \in Invocations :
           (PrimaryPresent(i) /\ Done(i))
               => (Oversized(i)
                       <=> h[i].respBody = Bytes("Input length exceeded\n"))

\* C7: two answered requests with the same MessageSid, From and Body whose
\* inserts both succeeded have two distinct rows with that message_sid; an
\* insert is never held back by what the table already holds.
C7_DuplicateRows ==
    /\ \A i \in Invocations :
           h[i].pc = "save" => ENABLED ExecInsert(i)
    /\ \A i, j \in Invocations :
           (i # j /\ h[i].raw = h[j].raw /\ Inserted(i) /\ Inserted(j))
               => /\ h[i].rowId # h[j].rowId
                  /\ {h[i].rowId, h[j].rowId} \subseteq 1..Len(table)
                  /\ table[h[i].rowId].id # table[h[j].rowId].id
                  /\ RowColumns(table[h[i].rowId]) = RowColumns(table[h[j].rowId])
                  /\ table[h[i].rowId].message_sid = h[i].sms.MessageSID

C7_Witness ==
    \E i, j \in Invocations :
        /\ i # j /\ h[i].raw = h[j].raw
        /\ h[i].status = 200 /\ h[j].status = 200
        /\ Len(table) >= 2

\* Every row belongs to one invocation and holds that request's own values.
RowsAreOwn ==
    /\ \A i \in Invocations : h[i].execs <= 1
    /\ Len(table) <= Cardinality({i \in Invocations : h[i].execs = 1})
    /\ \A k \in 1..Len(table) :
           /\ table[k].id = k
           /\ Cardinality({i \in Invocations : h[i].rowId = k}) = 1
           /\ \A i \in Invocations :
                  h[i].rowId = k => RowColumns(table[k]) = StoredFor(h[i].raw)

\* C8: under every interleaving each request causes at most one insert, a
\* step never changes or removes a row already written, every row holds only
\* its own request's values, and there are no more rows than handled requests.
C8_IndependentAppendOnly ==
    /\ []RowsAreOwn
    /\ [][/\ Len(table') >= Len(table)
          /\ Len(table') <= Len(table) + 1
          /\ SubSeq(table', 1, Len(table)) = table]_vars

\* Two inserts whose handlers overlapped: the second to extract stored first,
\* and its row was in the table while neither request had been answered.
C8_Witness ==
    \E i, j \in Invocations :
        /\ Inserted(i) /\ Inserted(j)
        /\ h[i].sms.ReceivedAt < h[j].sms.ReceivedAt
        /\ h[i].rowId > h[j].rowId
        /\ h[i].raw # h[j].raw
        /\ h[i].pc = "stored" /\ h[j].pc = "stored"

\* C9: a field that is non-empty after the direct lookup keeps exactly that
\* value in what is stored, whatever the nested query string holds for its key.
C9_DirectValuesKept ==
    \A i \in Invocations :
        (h[i].pc # "arrived" /\ ~Form(i).err) =>
            LET d == DirectFields(Form(i))
            IN  /\ d.messageSID # <<>> => h[i].fields.messageSID = d.messageSID
                /\ d.fromNumber # <<>> => h[i].fields.fromNumber = d.fromNumber
                /\ d.body # <<>> => h[i].fields.body = d.body
                /\ Inserted(i) =>
                       /\ d.messageSID # <<>>
                              => table[h[i].rowId].message_sid = d.messageSID
                       /\ d.fromNumber # <<>>
                              => table[h[i].rowId].from_number = d.fromNumber
                       /\ d.body # <<>> => table[h[i].rowId].body = d.body

\* The nested query string of invocation i's `body` value.
Nested(i) ==
    ParseQuery(TrimPrefix(PostFormValue(Form(i), KeyLowerBody), QuestionMark))

\* The fallback ran with another MessageSid in the nested string: the direct
\* one was stored, and From came from the nested string.
C9_Witness ==
    \E i \in Invocations :
        /\ Inserted(i) /\ h[i].fallback = "ran"
        /\ Get(Nested(i).vals, KeyMessageSid) = Bytes("SM2")
        /\ table[h[i].rowId].message_sid = Bytes("SM9")
        /\ table[h[i].rowId].from_number = Bytes("+1666")

\* C10: whenever the nested-body parse runs, body is already non-empty: it is
\* the form's Body value or, without one, the raw `body` value with any leading
\* '?'; the fallback leaves it as it is and that is what is stored.
C10_BodyNeverFromNested ==
    \A i \in Invocations :
        h[i].fallback \in {"ran", "failed"} =>
            /\ h[i].direct.body # <<>>
            /\ h[i].direct.body =
                   (IF PostFormValue(Form(i), KeyBody) # <<>>
                    THEN PostFormValue(Form(i), KeyBody)
                    ELSE PostFormValue(Form(i), KeyLowerBody))
            /\ h[i].fields.body = h[i].direct.body
            /\ Inserted(i) => table[h[i].rowId].body = h[i].direct.body

\* The spec's example: stored body is the raw nested string, not "Hi".
C10_Witness ==
    \E i \in Invocations :
        /\ Inserted(i) /\ h[i].fallback = "ran"
        /\ Get(Nested(i).vals, KeyBody) = Bytes("Hi")
        /\ table[h[i].rowId].body = Bytes("?MessageSid=SM9&From=+1555&Body=Hi")

=============================================================================
